---- MODULE Spec2Model ----
(***************************************************************************)
(* The danm cleaner (pkg/cleaner/main.go): a per-node daemon that removes  *)
(* DanmEp records of dead or vanished containers.  main runs cleanup (the  *)
(* startup sweep) and then EventHandler.Watch (the event loop); both call  *)
(* deleteInterface on endpoint records.                                    *)
(*                                                                         *)
(* The registry (DanmEps, DanmNets), the address pool behind ipam.Free and *)
(* the docker runtime are remote collaborators: their state is part of the *)
(* model, each call to them is answered from that state, and each call may *)
(* also fail.  All endpoint records live in one namespace, and a listing  *)
(* of the runtime may return any set of container ids.                    *)
(***************************************************************************)
EXTENDS Naturals, Sequences, FiniteSets

\* Number of endpoint names the registry may hold.
MaxEps == 2

Names == 1..MaxEps
Cids == {"abc", "def"}
NetIds == {"net1"}
NetTypes == {"ipvlan", "macvlan"}
Absent == "absent"

\* docker.APIEvents as Watch and ProcessEvent read it: Type, Action, ID and
\* Actor.Attributes["io.kubernetes.docker.type"] ("" when the key is absent).
MsgTypes == {"container", "network"}
MsgActions == {"kill", "die", "stop", "destroy", "create", "start", "pause"}
MsgMarkers == {"podsandbox", "container", ""}
Msgs == [Type : MsgTypes, Action : MsgActions, ID : Cids, marker : MsgMarkers]
NoMsg == [Type |-> "", Action |-> "", ID |-> "", marker |-> ""]

\* danmtypes.DanmEp as deleteInterface and cleanup read it.
EpRecords == [name : Names, netId : NetIds, netType : NetTypes, cid : Cids, addr : Names]

\* Results of the three collaborator calls inside one deleteInterface.
Outcomes == [get : BOOLEAN, free : BOOLEAN, del : BOOLEAN]

VARIABLES
    pc,          \* where main is
    registry,    \* DanmEp records present in the cluster store
    nets,        \* DanmNet definitions: id -> type, or Absent
    pool,        \* allocated addresses, as <<network id, address>>
    eps,         \* cleanup's / ProcessEvent's local eps
    dockerDeads, \* cleanup's local: ids of the exited listing
    cids,        \* cleanup's local: ids of the all-containers listing
    err,         \* cleanup's local err: which listing failed, or "none"
    msg,         \* the notification Watch is handling, or NoMsg
    lookup,      \* FindByCid for msg: "none" (not called) | "ok" | "err"
    log,         \* deleteInterface invocations of the current batch: what each
                 \* called and how the calls ended
    listener,    \* Watch's listener at the docker client: "none" | "refused" |
                 \* "added" | "removed" | "removeFailed"
    containers,  \* the runtime's containers: id -> state
    pending,     \* notifications the runtime has emitted to the listener and
                 \* Watch has not read yet
    call,        \* the deleteInterface call in progress: the collaborator call it
                 \* makes next, and what Get and Free have answered
    first        \* what a sweep with the passes in the code's order left behind
                 \* (the registry, how often each address was released), kept
                 \* for the comparison with the opposite order

vars == <<pc, registry, nets, pool, eps, dockerDeads, cids, err, msg, lookup, log,
          listener, containers, pending, call, first>>

----
\* Helpers

SeqToSet(s) == {s[x] : x \in 1..Len(s)}

\* The records of S (at most one per name) as a list, by name.
EpList(S) ==
    LET F[n \in 0..MaxEps] ==
            IF n = 0 THEN <<>>
            ELSE IF \E e \in S : e.name = n
                 THEN Append(F[n - 1], CHOOSE e \in S : e.name = n)
                 ELSE F[n - 1]
    IN F[MaxEps]

\* The ids of S as a list, in a fixed order.
RECURSIVE CidList(_)
CidList(S) ==
    IF S = {} THEN <<>>
    ELSE LET c == CHOOSE x \in S : TRUE IN <<c>> \o CidList(S \ {c})

----
\* The collaborators, at their interface

\* danmep.CidsByHost: the endpoint records of this host.
CidsByHost == EpList(registry)

\* danmep.FindByCid: the endpoint records whose CID is cid.
FindByCid(cid) == EpList({e \in registry : e.cid = cid})

\* dockercli.ListContainers: the ids of the containers S the runtime reports.
ListContainers(S) == CidList(S)

\* DanmNets(ns).Get(id): the definition, or an error (not found, or transient).
GetNet(id, ok) == IF ok /\ nets[id] # Absent THEN nets[id] ELSE Absent

\* ipam.Free: on success the address is back in the network's pool.
Free(p, netId, addr, ok) == IF ok THEN p \ {<<netId, addr>>} ELSE p

\* DanmEps(ns).Delete(name): on success no record of that name is left.
Delete(r, name, ok) == IF ok THEN {e \in r : e.name # name} ELSE r

----
\* main.go

\* A variant of contains that looks at the first element only.
contains_FirstOnly(x, y) == x # <<>> /\ Head(x) = y

\* contains (lines 130-137)
RECURSIVE contains(_, _)
contains(x, y) ==
    IF x = <<>> THEN FALSE
    ELSE IF Head(x) = y THEN TRUE
    ELSE contains(Tail(x), y)

\* deleteInterface, line 149: the condition under which ipam.Free is called.
FreesAddress(ep, netInfo) == ep.netType # "ipvlan"

\* What deleteInterface leaves behind when it calls ipam.Free iff frees and
\* DanmEps.Delete iff deletes, the collaborators answering o (lines 150, 153:
\* neither result is looked at).
Calls(ep, o, fetched, frees, deletes) ==
    [registry |-> IF deletes THEN Delete(registry, ep.name, o.del) ELSE registry,
     pool |-> IF frees THEN Free(pool, ep.netId, ep.addr, o.free) ELSE pool,
     entry |-> [ep |-> ep, fetched |-> fetched,
                freeCalled |-> frees, freeOk |-> frees /\ o.free,
                delCalled |-> deletes,
                delOk |-> deletes /\ o.del /\ (\E e \in registry : e.name = ep.name)]]

\* A variant of deleteInterface without the return of line 146.
deleteInterface_NoReturn(ep, o) ==
    LET netInfo == GetNet(ep.netId, o.get)
        fetched == netInfo # Absent
    IN Calls(ep, o, fetched, fetched /\ FreesAddress(ep, netInfo), TRUE)

\* A variant of deleteInterface that returns when ipam.Free fails.
deleteInterface_ReturnOnFreeError(ep, o) ==
    LET netInfo == GetNet(ep.netId, o.get)
        fetched == netInfo # Absent
        frees == fetched /\ FreesAddress(ep, netInfo)
    IN Calls(ep, o, fetched, frees, fetched /\ (frees => o.free))

\* deleteInterface (lines 142-154) on record ep with the collaborators answering o:
\* the registry and the pool after it, and what it called.
deleteInterface(ep, o) ==
    LET netInfo == GetNet(ep.netId, o.get)
        fetched == netInfo # Absent
    IN Calls(ep, o, fetched, fetched /\ FreesAddress(ep, netInfo), fetched)

\* No deleteInterface call is in progress: the next one starts with its Get.
NoCall == [stage |-> "get", get |-> TRUE, free |-> TRUE]

\* deleteInterface (lines 142-154) on the next record of batch, one blocking
\* collaborator call at a time: DanmNets.Get (line 143), ipam.Free (line 150),
\* DanmEps.Delete (line 153).  The step makes the call that is due, answered
\* ok, on the stores as they are now; when deleteInterface returns, what it
\* called goes into log.
VisitStep(batch, ok) ==
    LET ep == batch[Len(log) + 1]
        o == [get |-> IF call.stage = "get" THEN ok ELSE call.get,
              free |-> IF call.stage = "free" THEN ok ELSE call.free,
              del |-> IF call.stage = "del" THEN ok ELSE TRUE]
        r == deleteInterface(ep, o)
        next == IF call.stage = "get" /\ r.entry.freeCalled THEN "free"
                ELSE IF call.stage \in {"get", "free"} /\ r.entry.delCalled THEN "del"
                ELSE "get"
    IN /\ pool' = IF call.stage = "free" THEN r.pool ELSE pool
       /\ registry' = IF call.stage = "del" THEN r.registry ELSE registry
       /\ call' = IF next = "get" THEN NoCall
                  ELSE [stage |-> next, get |-> o.get, free |-> o.free]
       /\ log' = IF next = "get" THEN Append(log, r.entry) ELSE log

\* cleanup, lines 112-118: the records the exited-container pass hands to
\* deleteInterface, in order.
RECURSIVE DeadPass(_, _)
DeadPass(deads, es) ==
    IF deads = <<>> THEN <<>>
    ELSE SelectSeq(es, LAMBDA ep : ep.cid = Head(deads)) \o DeadPass(Tail(deads), es)

\* A variant of the not-on-the-host pass that skips the records that are not
\* in the registry any more.
MissingPass_Live(es, all) ==
    SelectSeq(es, LAMBDA ep : ~contains(all, ep.cid) /\ ep \in registry)

\* cleanup, lines 120-124: the records the not-on-the-host pass hands over.
MissingPass(es, all) == SelectSeq(es, LAMBDA ep : ~contains(all, ep.cid))

\* cleanup, lines 111-124: both passes.
SweepVisits == DeadPass(dockerDeads, eps) \o MissingPass(eps, cids)

\* A variant of the loops that ends them after their first element.
RangeDone_AfterFirst(batch) == log # <<>> \/ batch = <<>>

\* A variant of the loops that ends them at the first failed fetch.
RangeDone_OnError(batch) ==
    Len(log) >= Len(batch) \/ (log # <<>> /\ ~log[Len(log)].fetched)

\* The range loops of cleanup and ProcessEvent: the loop over batch ends when
\* every element has been handed to deleteInterface, whatever happened inside.
RangeDone(batch) == Len(log) >= Len(batch)

\* A variant of cleanup without the returns of lines 90, 98 and 104.
AfterListing_NoReturn(ok, next) == next

\* cleanup, lines 88-91, 96-99, 102-105: where cleanup goes after a listing.
AfterListing(ok, next) == IF ok THEN next ELSE "addListener"

\* A variant of Watch without the Type test.
IsContainerMsg_Any(m) == TRUE

\* Watch, line 69
IsContainerMsg(m) == m.Type = "container"

\* A variant of ProcessEvent without the pod-sandbox test.
IsPodSandbox_Any(m) == TRUE

\* ProcessEvent, line 31
IsPodSandbox(m) == m.marker = "podsandbox"

\* A variant of Watch that logs a failed AddEventListener and goes on.
AfterAddEventListener_LogOnly(ok) == "watch"

\* Watch, lines 51-54: glog.Fatal ends the process when AddEventListener fails.
AfterAddEventListener(ok) == IF ok THEN "watch" ELSE "exit"

\* Watch, lines 57-64: the deferred function, run by a panic inside the loop.
\* It calls RemoveEventListener; on an error glog.Fatal ends the process, and
\* otherwise the panic goes on and ends it.
Deferred(ok) ==
    IF ok THEN [listener |-> "removed", pc |-> "crashed"]
    ELSE [listener |-> "removeFailed", pc |-> "exit"]

\* A variant of ProcessEvent that does not react to "stop".
IsDeathAction_NoStop(a) == a = "kill" \/ a = "die" \/ a = "destroy"

\* ProcessEvent, line 37
IsDeathAction(a) == a = "kill" \/ a = "die" \/ a = "stop" \/ a = "destroy"

----
\* Initial states

TypeOK ==
    /\ pc \in {"main", "cidsByHost", "listDead", "listAll", "sweep", "addListener",
               "watch", "lookup", "process", "exit", "crashed"}
    /\ registry \subseteq EpRecords
    /\ nets \in [NetIds -> NetTypes \cup {Absent}]
    /\ pool \subseteq NetIds \X Names
    /\ eps \in Seq(EpRecords)
    /\ dockerDeads \in Seq(Cids)
    /\ cids \in Seq(Cids)
    /\ err \in {"none", "eps", "dead", "all"}
    /\ msg \in Msgs \cup {NoMsg}
    /\ lookup \in {"none", "ok", "err"}
    /\ log \in Seq([ep : EpRecords, fetched : BOOLEAN, freeCalled : BOOLEAN,
                    freeOk : BOOLEAN, delCalled : BOOLEAN, delOk : BOOLEAN])
    /\ listener \in {"none", "refused", "added", "removed", "removeFailed"}
    /\ containers \in [Cids -> {"unknown", "running", "exited", "removed"}]
    /\ pending \in Seq(Msgs)
    /\ call \in [stage : {"get", "free", "del"}, get : BOOLEAN, free : BOOLEAN]
    /\ first \in [done : BOOLEAN, registry : SUBSET EpRecords,
                  released : [NetIds \X Names -> Nat]]

\* The registries: at most one record per name, the record of name n holding
\* address n.
Registries ==
    LET Fields == [netId : NetIds, netType : NetTypes, cid : Cids]
        Rec(n, f) == [name |-> n, netId |-> f.netId, netType |-> f.netType,
                      cid |-> f.cid, addr |-> n]
    IN UNION {{{Rec(n, g[n]) : n \in D} : g \in [D -> Fields]} : D \in SUBSET Names}

\* The process starts; nothing is known of the containers.
InitDaemon ==
    /\ pc = "main"
    /\ registry \in Registries
    /\ nets \in [NetIds -> NetTypes \cup {Absent}]
    /\ pool = {<<e.netId, e.addr>> : e \in {x \in registry : nets[x.netId] = "macvlan"}}
    /\ eps = <<>>
    /\ dockerDeads = <<>>
    /\ cids = <<>>
    /\ err = "none"
    /\ msg = NoMsg
    /\ lookup = "none"
    /\ log = <<>>
    /\ listener = "none"
    /\ pending = <<>>
    /\ call = NoCall
    /\ first = [done |-> FALSE, registry |-> {}, released |-> [a \in NetIds \X Names |-> 0]]

Init ==
    /\ InitDaemon
    /\ containers = [c \in Cids |-> "unknown"]

----
\* Actions

world == <<registry, nets, pool>>
locals == <<eps, dockerDeads, cids, err>>
event == <<msg, lookup>>
runtime == <<containers, pending>>

\* main, lines 185-189: the docker client and the danm client are built, or the
\* process ends (panic, glog.Fatalf).
Main ==
    /\ pc = "main"
    /\ \E ok \in BOOLEAN : pc' = IF ok THEN "cidsByHost" ELSE "exit"
    /\ UNCHANGED <<world, locals, event, log, listener, runtime, first, call>>

\* cleanup, lines 87-91: getHostname (fatal on error) and CidsByHost.
CleanupCidsByHost ==
    /\ pc = "cidsByHost"
    /\ \E hostOk \in BOOLEAN, ok \in BOOLEAN :
          IF ~hostOk
          THEN pc' = "exit" /\ UNCHANGED <<eps, err>>
          ELSE /\ pc' = AfterListing(ok, "listDead")
               /\ eps' = IF ok THEN CidsByHost ELSE <<>>
               /\ err' = IF ok THEN err ELSE "eps"
    /\ UNCHANGED <<world, dockerDeads, cids, event, log, listener, runtime, first, call>>

\* cleanup, lines 92-99: the exited containers.
CleanupListDead ==
    /\ pc = "listDead"
    /\ \E ok \in BOOLEAN, exited \in SUBSET Cids :
          /\ pc' = AfterListing(ok, "listAll")
          /\ dockerDeads' = IF ok THEN ListContainers(exited) ELSE <<>>
          /\ err' = IF ok THEN err ELSE "dead"
    /\ UNCHANGED <<world, eps, cids, event, log, listener, runtime, first, call>>

\* cleanup, lines 101-110: all containers, and their ids.
CleanupListAll ==
    /\ pc = "listAll"
    /\ \E ok \in BOOLEAN, all \in SUBSET Cids :
          /\ pc' = AfterListing(ok, "sweep")
          /\ cids' = IF ok THEN ListContainers(all) ELSE <<>>
          /\ err' = IF ok THEN err ELSE "all"
    /\ UNCHANGED <<world, eps, dockerDeads, event, log, listener, runtime, first, call>>

\* cleanup, lines 111-124: one collaborator call of a deleteInterface call of
\* the two passes, answered ok.
CleanupCall(ok) ==
    /\ pc = "sweep"
    /\ ~RangeDone(SweepVisits)
    /\ VisitStep(SweepVisits, ok)
    /\ UNCHANGED <<pc, nets, locals, event, listener, runtime, first>>

CleanupVisit == \E ok \in BOOLEAN : CleanupCall(ok)

\* A variant of cleanup that may return in the middle of its passes.
CleanupReturn_Early ==
    /\ pc = "sweep"
    /\ pc' = "addListener"
    /\ UNCHANGED <<world, locals, event, log, listener, runtime, first, call>>

\* cleanup, line 125: both passes are over.
CleanupReturn ==
    /\ pc = "sweep"
    /\ RangeDone(SweepVisits)
    /\ pc' = "addListener"
    /\ UNCHANGED <<world, locals, event, log, listener, runtime, first, call>>

\* main, lines 191-192 and Watch, lines 50-55: cleanup's locals are gone, the
\* listener is added, or the process ends (glog.Fatal).
WatchAddEventListener ==
    /\ pc = "addListener"
    /\ \E ok \in BOOLEAN :
          /\ pc' = AfterAddEventListener(ok)
          /\ listener' = IF ok THEN "added" ELSE "refused"
    /\ eps' = <<>>
    /\ dockerDeads' = <<>>
    /\ cids' = <<>>
    /\ err' = "none"
    /\ log' = <<>>
    /\ UNCHANGED <<world, event, runtime, first, call>>

\* Watch, lines 66-71 and ProcessEvent, lines 28-37: a notification is received
\* and filtered; for a death of a pod sandbox ProcessEvent goes on to FindByCid.
WatchReceive(m) ==
    /\ pc = "watch"
    /\ pc' = IF IsContainerMsg(m) /\ IsPodSandbox(m) /\ IsDeathAction(m.Action)
             THEN "lookup" ELSE "process"
    /\ msg' = m
    /\ lookup' = "none"
    /\ eps' = <<>>
    /\ UNCHANGED <<world, dockerDeads, cids, err, log, listener, containers, first, call>>

\* ProcessEvent, lines 38-41: the blocking call danmep.FindByCid answers, ok
\* or with an error, from the registry as it is now.
ProcessLookup(ok) ==
    /\ pc = "lookup"
    /\ pc' = "process"
    /\ lookup' = IF ok THEN "ok" ELSE "err"
    /\ eps' = IF ok THEN FindByCid(msg.ID) ELSE <<>>
    /\ UNCHANGED <<world, dockerDeads, cids, err, msg, log, listener, runtime, first, call>>

ProcessFindByCid == \E ok \in BOOLEAN : ProcessLookup(ok)

\* ProcessEvent, lines 43-45: one collaborator call of a deleteInterface call
\* of the loop, answered ok.
ProcessCall(ok) ==
    /\ pc = "process"
    /\ ~RangeDone(eps)
    /\ VisitStep(eps, ok)
    /\ UNCHANGED <<pc, nets, locals, event, listener, runtime, first>>

ProcessVisit == \E ok \in BOOLEAN : ProcessCall(ok)

\* ProcessEvent returns, Watch is back at its select (line 67).
ProcessReturn ==
    /\ pc = "process"
    /\ RangeDone(eps)
    /\ pc' = "watch"
    /\ msg' = NoMsg
    /\ lookup' = "none"
    /\ eps' = <<>>
    /\ log' = <<>>
    /\ UNCHANGED <<world, dockerDeads, cids, err, listener, runtime, first, call>>

\* Watch reads whatever notification the runtime may send.
WatchReceiveAny == \E m \in Msgs : WatchReceive(m) /\ UNCHANGED pending

\* Watch, lines 57-69: the client has closed the listener's channel (the event
\* stream broke).  The receive of line 68 yields nil, line 69 dereferences it,
\* and the panic runs the deferred function.
WatchListenerClosed ==
    /\ pc = "watch"
    /\ \E ok \in BOOLEAN :
          /\ listener' = Deferred(ok).listener
          /\ pc' = Deferred(ok).pc
    /\ UNCHANGED <<world, locals, event, log, runtime, first, call>>

Next ==
    \/ Main
    \/ CleanupCidsByHost
    \/ CleanupListDead
    \/ CleanupListAll
    \/ CleanupVisit
    \/ CleanupReturn
    \/ WatchAddEventListener
    \/ WatchReceiveAny
    \/ ProcessFindByCid
    \/ WatchListenerClosed
    \/ ProcessVisit
    \/ ProcessReturn

Spec == Init /\ [][Next]_vars

----
\* Properties

\* How often the current batch called ipam.Free / DanmEps.Delete for record e,
\* and how often ipam.Free succeeded for it.
FreeCalls(e) == Cardinality({x \in 1..Len(log) : log[x].ep = e /\ log[x].freeCalled})
DelCalls(e) == Cardinality({x \in 1..Len(log) : log[x].ep = e /\ log[x].delCalled})
Releases(e) == Cardinality({x \in 1..Len(log) : log[x].ep = e /\ log[x].freeOk})

\* The records the current batch has handed to deleteInterface.
Visited == {log[x].ep : x \in 1..Len(log)}

\* A step in which a deleteInterface call returns; the call.
IsVisit == log' # log /\ log' # <<>>
Call == log'[Len(log')]

\* A step in which ipam.Free returns without an error; the record whose
\* address it released.
IsRelease == call.stage = "free" /\ call'.stage = "del" /\ call'.free
Released == (IF pc = "sweep" THEN SweepVisits ELSE eps)[Len(log) + 1]

\* A step that ends a batch; the batch it ends.
EndsBatch == (pc = "sweep" /\ pc' = "addListener") \/ (pc = "process" /\ pc' = "watch")
Batch == IF pc = "sweep" THEN SweepVisits ELSE eps

\* No record of e's name is in the registry.
Gone(e) == ~(\E r \in registry : r.name = e.name)

\* Every collaborator call made for e in the current batch was answered without
\* an error, other than a Delete that found the record already deleted.
NoErrors(e) ==
    \A x \in 1..Len(log) :
        log[x].ep = e
        => /\ log[x].fetched
           /\ log[x].freeCalled => log[x].freeOk
           /\ log[x].delOk \/ \E y \in 1..(x - 1) : log[y].ep = e /\ log[y].delOk

\* C1: after deleteInterface has been invoked twice on the same endpoint record
\* (its stored type that of its network, the collaborators answering without
\* errors), the record is absent and its address has been released at most
\* once in total.
C1_Idempotent ==
    \A a, b \in 1..Len(log) :
        (/\ a < b /\ log[a].ep = log[b].ep
         /\ nets[log[a].ep.netId] = log[a].ep.netType
         /\ NoErrors(log[a].ep))
        => Gone(log[a].ep) /\ Releases(log[a].ep) <= 1

\* C2: for an endpoint whose network definition carries the exempt
\* type, deleteInterface never calls ipam.Free, and deletes the record when the
\* fetch succeeds, whatever type the endpoint record stores.
C2_ExemptByDefinition ==
    \A x \in 1..Len(log) :
        nets[log[x].ep.netId] = "ipvlan"
        => /\ ~log[x].freeCalled
           /\ log[x].fetched => log[x].delCalled

\* C3: when the three listings succeed, the sweep hands to deleteInterface
\* exactly the endpoints whose CID is in the exited listing or missing from the
\* all-containers listing; an endpoint of a running container is never handed over.
C3_OrphanSet ==
    LET E == SeqToSet(eps)
        Orphans == {e \in E : e.cid \in SeqToSet(dockerDeads)}
                   \cup {e \in E : e.cid \notin SeqToSet(cids)}
    IN /\ (pc = "sweep" => Visited \subseteq Orphans)
       /\ (pc = "addListener" /\ err = "none" => Visited = Orphans)
       /\ (pc \in {"sweep", "addListener"}
              => \A e \in E : e.cid \in SeqToSet(cids) \ SeqToSet(dockerDeads)
                                 => e \notin Visited /\ e \in registry)

C3_Witness ==
    /\ pc = "addListener" /\ err = "none"
    /\ \E e \in Visited : e.cid \in SeqToSet(dockerDeads) /\ e.cid \in SeqToSet(cids)
    /\ \E e \in SeqToSet(eps) : e.cid \in SeqToSet(cids) \ SeqToSet(dockerDeads)
                                /\ e \notin Visited

\* C4: a notification whose Type is not "container", or whose pod-sandbox marker
\* is absent or another value, causes no lookup and no deleteInterface call,
\* whatever its action.
C4_Filtered ==
    (/\ pc \in {"lookup", "process"}
     /\ msg.Type # "container" \/ msg.marker # "podsandbox")
    => pc = "process" /\ lookup = "none" /\ eps = <<>> /\ log = <<>>

C4_Witness ==
    /\ pc = "process"
    /\ msg.Type = "network" /\ msg.Action = "die" /\ msg.marker = "podsandbox"
    /\ \E e \in registry : e.cid = msg.ID
    /\ lookup = "none"

\* C5: for a container notification of a pod sandbox, FindByCid is called iff
\* the action is kill, die, stop or destroy; for any other action there is no
\* lookup and no deleteInterface call.
C5_ActionGating ==
    (/\ pc \in {"lookup", "process"}
     /\ msg.Type = "container" /\ msg.marker = "podsandbox")
    => /\ (pc = "lookup" \/ lookup # "none")
          <=> msg.Action \in {"kill", "die", "stop", "destroy"}
       /\ msg.Action \notin {"kill", "die", "stop", "destroy"}
              => eps = <<>> /\ log = <<>>

C5_Witness ==
    /\ pc = "process"
    /\ msg.Type = "container" /\ msg.marker = "podsandbox" /\ msg.Action = "stop"
    /\ lookup = "ok"
    /\ log # <<>>

\* C6: when a batch (the sweep's two passes, the endpoints found for an event)
\* ends and some fetch in it failed, every record of the batch has been handed
\* to deleteInterface, and each one whose fetch succeeded had its address
\* released when its type asks for it and its delete issued, before or after
\* the failure.
C6_FaultIsolation ==
    [][(EndsBatch /\ \E a \in 1..Len(log) : ~log[a].fetched)
       => /\ Len(log) = Len(Batch)
          /\ \A b \in 1..Len(Batch) :
                /\ log[b].ep = Batch[b]
                /\ log[b].fetched
                      => /\ log[b].delCalled
                         /\ log[b].freeCalled <=> Batch[b].netType # "ipvlan"]_vars

C6_Witness ==
    /\ pc = "addListener"
    /\ \E a, b \in 1..Len(log) :
          /\ a < b /\ log[a].ep # log[b].ep
          /\ ~log[a].fetched /\ log[a].ep \in registry
          /\ log[b].fetched /\ log[b].freeOk /\ log[b].delOk
          /\ log[b].ep \notin registry

\* C7: at the end of a sweep, every visited endpoint of a pool-backed network
\* (the collaborators answering without errors) had ipam.Free called exactly
\* once and Delete called exactly once, also when both passes matched it.
C7_ExactlyOnce ==
    (pc = "addListener" /\ err = "none")
    => \A e \in Visited :
          (e.netType # "ipvlan" /\ nets[e.netId] = "macvlan" /\ NoErrors(e))
          => FreeCalls(e) = 1 /\ DelCalls(e) = 1

\* C8: a deleteInterface call whose fetch fails calls neither ipam.Free nor
\* Delete and leaves the registry and the pool as they were.
C8_FetchFailure ==
    [][(IsVisit /\ ~Call.fetched)
       => /\ ~Call.freeCalled /\ ~Call.delCalled
          /\ registry' = registry
          /\ pool' = pool]_vars

C8_Witness ==
    /\ log # <<>>
    /\ ~log[Len(log)].fetched
    /\ log[Len(log)].ep \in registry
    /\ <<log[Len(log)].ep.netId, log[Len(log)].ep.addr>> \in pool

\* C9: a deleteInterface call whose fetch succeeds still issues the delete when
\* the release fails; whatever the delete returns, the caller stays in its loop,
\* which ends only when every record of the batch has been handed over.
C9_ReleaseFailure ==
    [][/\ (IsVisit /\ Call.fetched)
          => /\ Call.delCalled
             /\ registry' = Delete(registry, Call.ep.name, Call.delOk)
             /\ pc' = pc
       /\ EndsBatch => Len(log) = Len(Batch)]_vars

C9_Witness ==
    /\ pc = "sweep"
    /\ Len(log) >= 2
    /\ log[1].fetched /\ log[1].freeCalled /\ ~log[1].freeOk
    /\ log[1].delCalled /\ ~log[1].delOk /\ log[1].ep \in registry
    /\ log[2].ep # log[1].ep /\ log[2].delOk

\* C10: when the listing by hostname, the exited listing or the all-containers
\* listing fails, cleanup has called deleteInterface on nothing, the registry
\* and the pool are untouched, and main is at the start of Watch.
C10_SweepAborts ==
    [][err' # "none"
       => /\ pc' = "addListener"
          /\ log' = <<>>
          /\ registry' = registry
          /\ pool' = pool]_vars

C10_Witness ==
    /\ pc = "addListener"
    /\ err = "all"
    /\ \E x \in 1..Len(eps) : contains(dockerDeads, eps[x].cid)
    /\ log = <<>>
    /\ SeqToSet(eps) = registry

\* C11: handling a notification never ends the watch loop, and only the setup
\* steps end the process.  From "lookup" the only way on is the answer of
\* FindByCid, and from "process" the only ways on are another deleteInterface
\* call and the return to the select of Watch, whatever was discarded, looked
\* up or failed; one of the two is always possible; back at the select every
\* notification can be read; and the process ends only in the steps that come
\* before the loop (main, cleanup's host name, AddEventListener).
C11_LoopNeverAborted ==
    [][/\ pc = "lookup"
          => /\ pc' \in {"lookup", "process"}
             /\ listener' = "added"
             /\ ENABLED ProcessFindByCid
       /\ pc = "process"
          => /\ pc' \in {"process", "watch"}
             /\ listener' = "added"
             /\ ENABLED ProcessVisit \/ ENABLED ProcessReturn
       /\ (pc = "process" /\ pc' = "watch") => msg' = NoMsg /\ log' = <<>>
       /\ pc = "watch" => \A m \in Msgs : ENABLED WatchReceive(m)
       /\ (pc' \in {"exit", "crashed"} /\ pc' # pc)
          => pc \in {"main", "cidsByHost", "addListener"}]_vars

\* C12: when AddEventListener fails, the process ends there: no notification
\* is read, no lookup and no deleteInterface call is made, the registry and the
\* pool stay as they are, and nothing happens afterwards.
C12_SubscriptionFatal ==
    [][/\ (pc = "addListener" /\ listener' = "refused")
          => /\ pc' = "exit"
             /\ msg' = NoMsg /\ lookup' = "none" /\ log' = <<>>
             /\ UNCHANGED world
       /\ listener = "refused" => UNCHANGED vars]_vars

C12_Witness ==
    /\ pc = "exit"
    /\ listener = "refused"
    /\ msg = NoMsg /\ lookup = "none"
    /\ registry # {}

\* C13: whenever the watch loop has exited, RemoveEventListener has
\* been called, and a failure of it has not become a fatal error: the process
\* ends the way it was ending before the teardown.
C13_TeardownLoggedOnly ==
    (pc \in {"exit", "crashed"} /\ listener \notin {"none", "refused"})
    => /\ listener \in {"removed", "removeFailed"}
       /\ pc = "crashed"

\* C15: the sweep comes strictly before the watching.  While cleanup runs there
\* is no listener and no notification; the listener is added only after
\* cleanup has returned, and cleanup returns from its passes only when every
\* deleteInterface call of them is over; a notification is read only at the
\* select of Watch, with the previous one and all its deleteInterface calls
\* over; the registry and the pool change only inside one of the two loops.
C15_SweepThenWatch ==
    [][/\ pc \in {"main", "cidsByHost", "listDead", "listAll", "sweep"}
          => listener = "none" /\ msg = NoMsg /\ lookup = "none"
       /\ (listener = "none" /\ listener' = "added")
          => pc = "addListener" /\ pc' = "watch" /\ log' = <<>>
       /\ (pc = "sweep" /\ pc' # "sweep") => Len(log) = Len(SweepVisits)
       /\ (msg' # msg /\ msg' # NoMsg)
          => pc = "watch" /\ msg = NoMsg /\ log = <<>> /\ listener = "added"
       /\ (pc = "process" /\ pc' # "process") => Len(log) = Len(eps)
       /\ (registry' # registry \/ pool' # pool)
          => pc \in {"sweep", "process"} /\ pc' = pc
                /\ (listener = "added" <=> pc = "process")]_vars

C15_Witness ==
    /\ pc = "process"
    /\ listener = "added"
    /\ Len(log) = 2
    /\ Len(eps) = 2
    /\ registry = {}

\* C17 as stated: once a container notification of a pod sandbox with action
\* kill, die, stop or destroy has been handled, every endpoint record whose CID
\* is the notification's ID has been handed to deleteInterface, and is absent
\* unless a collaborator call made for it failed.
C17_AllInvoked ==
    [][(/\ pc = "process" /\ pc' # "process"
        /\ msg.Type = "container" /\ msg.marker = "podsandbox"
        /\ msg.Action \in {"kill", "die", "stop", "destroy"})
       => \A e \in registry : e.cid = msg.ID => e \in Visited /\ ~NoErrors(e)]_vars

\* C17 amended: the same, when FindByCid returned without an error.  The
\* lookup has then been made, every record it returned has been handed to
\* deleteInterface, and a record of that CID is left in the registry only if a
\* collaborator call made for it failed.  When FindByCid returned an error, the
\* notification is over without any deleteInterface call.
C17_AllFound ==
    [][(/\ pc = "process" /\ pc' # "process"
        /\ msg.Type = "container" /\ msg.marker = "podsandbox"
        /\ msg.Action \in {"kill", "die", "stop", "destroy"})
       => IF lookup = "err"
          THEN eps = <<>> /\ log = <<>> /\ call = NoCall
          ELSE /\ lookup = "ok"
               /\ Visited = SeqToSet(eps)
               /\ \A e \in Visited : e.cid = msg.ID /\ (NoErrors(e) => Gone(e))
               /\ \A e \in registry : e.cid = msg.ID => e \in Visited /\ ~NoErrors(e)]_vars

C17_Witness ==
    /\ pc = "process"
    /\ msg.Type = "container" /\ msg.marker = "podsandbox" /\ msg.Action = "kill"
    /\ lookup = "ok"
    /\ Len(eps) = 2 /\ Len(log) = 2
    /\ log[1].ep # log[2].ep
    /\ log[1].ep.cid = msg.ID /\ log[2].ep.cid = msg.ID
    /\ log[1].delOk /\ log[2].delOk
    /\ Gone(log[1].ep) /\ Gone(log[2].ep)

\* C19: the daemon creates and modifies no endpoint record and leaves the
\* network definitions alone; a record it deletes is one that CidsByHost
\* returned to cleanup and whose CID is in the exited listing or not in the
\* all-containers listing, or one whose CID is the ID of the container
\* notification of a pod sandbox with action kill, die, stop or destroy that
\* is being handled.
C19_DeletesOnlyOrphans ==
    [][/\ registry' \subseteq registry
       /\ nets' = nets
       /\ \A e \in registry \ registry' :
             \/ /\ pc = "sweep"
                /\ e \in SeqToSet(eps)
                /\ e.cid \in SeqToSet(dockerDeads) \/ e.cid \notin SeqToSet(cids)
             \/ /\ pc = "process"
                /\ msg.Type = "container" /\ msg.marker = "podsandbox"
                /\ msg.Action \in {"kill", "die", "stop", "destroy"}
                /\ e.cid = msg.ID]_vars

C19_Witness ==
    /\ pc = "process"
    /\ msg.Action = "destroy"
    /\ \E x \in 1..Len(log) :
          log[x].delOk /\ log[x].ep.cid = msg.ID /\ log[x].ep \notin registry
    /\ \E r \in registry : r.cid # msg.ID

----
\* The two passes of cleanup in both orders
\*
\* SpecOrder runs cleanup on a registry and a pair of listings with the passes
\* in the code's order, notes what is left, puts the registry and the pool
\* back, and runs the passes in the opposite order.  The collaborators answer
\* without errors; a fetch fails only for a network that has no definition.

\* How often each address was released by the calls of l.
ReleasedBag(l) ==
    [a \in NetIds \X Names |->
        Cardinality({x \in 1..Len(l) :
                        l[x].freeOk /\ <<l[x].ep.netId, l[x].ep.addr>> = a})]

\* cleanup, lines 111-124, with the pass of lines 120-124 first.
SweepVisitsSwapped == MissingPass(eps, cids) \o DeadPass(dockerDeads, eps)

OrderMain == Main /\ pc' = "cidsByHost"
OrderCidsByHost == CleanupCidsByHost /\ pc' = "listDead"
OrderListDead == CleanupListDead /\ pc' = "listAll"
OrderListAll == CleanupListAll /\ pc' = "sweep"
OrderVisit == ~first.done /\ CleanupCall(TRUE)

\* The passes in the code's order are over: their result is noted, the registry
\* and the pool are put back to what cleanup started from.
OrderRestart ==
    /\ pc = "sweep"
    /\ ~first.done
    /\ RangeDone(SweepVisits)
    /\ first' = [done |-> TRUE, registry |-> registry, released |-> ReleasedBag(log)]
    /\ registry' = SeqToSet(eps)
    /\ pool' = {<<e.netId, e.addr>> : e \in {x \in SeqToSet(eps) : nets[x.netId] = "macvlan"}}
    /\ log' = <<>>
    /\ UNCHANGED <<pc, nets, locals, event, listener, runtime, call>>

\* One collaborator call of a deleteInterface call of the passes in the
\* opposite order.
OrderVisitSwapped ==
    /\ pc = "sweep"
    /\ first.done
    /\ ~RangeDone(SweepVisitsSwapped)
    /\ VisitStep(SweepVisitsSwapped, TRUE)
    /\ UNCHANGED <<pc, nets, locals, event, listener, runtime, first>>

OrderReturn ==
    /\ first.done
    /\ RangeDone(SweepVisitsSwapped)
    /\ CleanupReturn

NextOrder ==
    \/ OrderMain
    \/ OrderCidsByHost
    \/ OrderListDead
    \/ OrderListAll
    \/ OrderVisit
    \/ OrderRestart
    \/ OrderVisitSwapped
    \/ OrderReturn

SpecOrder == Init /\ [][NextOrder]_vars

\* C16: on the same registry and the same pair of listings, the passes in the
\* opposite order leave the same registry and the same number of releases of
\* each address as the passes in the code's order.
C16_PassOrder ==
    (first.done /\ pc = "addListener")
    => /\ registry = first.registry
       /\ ReleasedBag(log) = first.released

C16_Witness ==
    /\ first.done /\ pc = "addListener"
    /\ Len(log) = 3
    /\ log[1].ep.cid \notin SeqToSet(cids) /\ log[1].ep.cid \notin SeqToSet(dockerDeads)
    /\ log[2].ep # log[1].ep
    /\ log[2].ep.cid \notin SeqToSet(cids) /\ log[2].ep.cid \in SeqToSet(dockerDeads)
    /\ log[3].ep = log[2].ep
    /\ first.released[<<"net1", log[3].ep.addr>>] = 2
    /\ first.released[<<"net1", log[1].ep.addr>>] = 1
    /\ registry = {}

----
\* The daemon next to a runtime and a provisioner
\*
\* SpecEnv runs the same main, with the listings and the notifications taken
\* from the containers' state, every collaborator call succeeding, and the CNI
\* plugin creating and deleting endpoint records at any moment.

DeathMsg(c, action) ==
    [Type |-> "container", Action |-> action, ID |-> c, marker |-> "podsandbox"]

\* The runtime emits a notification to the listener, if one is added.
Emit(m) == IF listener = "added" THEN Append(pending, m) ELSE pending

daemon == <<pc, locals, event, log, listener, first, call>>

\* A pod sandbox exits.
EnvContainerExits(c) ==
    /\ containers[c] = "running"
    /\ containers' = [containers EXCEPT ![c] = "exited"]
    /\ pending' = Emit(DeathMsg(c, "die"))
    /\ UNCHANGED <<world, daemon>>

\* A pod sandbox, running or exited, is removed from the host.
EnvContainerRemoved(c) ==
    /\ containers[c] \in {"running", "exited"}
    /\ containers' = [containers EXCEPT ![c] = "removed"]
    /\ pending' = Emit(DeathMsg(c, "destroy"))
    /\ UNCHANGED <<world, daemon>>

\* The CNI plugin provisions an interface of a running sandbox: an address
\* that is free in the pool is allocated and the endpoint record is created
\* under a new name (one that no record and no list of the daemon carries).
EnvProvision(n, c, a) ==
    /\ containers[c] = "running"
    /\ ~(\E r \in registry : r.name = n)
    /\ ~(\E x \in 1..Len(eps) : eps[x].name = n)
    /\ <<"net1", a>> \notin pool
    /\ registry' = registry \cup {[name |-> n, netId |-> "net1", netType |-> "macvlan",
                                   cid |-> c, addr |-> a]}
    /\ pool' = pool \cup {<<"net1", a>>}
    /\ UNCHANGED <<nets, daemon, runtime>>

\* The CNI plugin deletes an interface: address released, record deleted.
EnvCniDelete(e) ==
    /\ e \in registry
    /\ registry' = registry \ {e}
    /\ pool' = pool \ {<<e.netId, e.addr>>}
    /\ UNCHANGED <<nets, daemon, runtime>>

InitEnv ==
    /\ InitDaemon
    /\ containers = [c \in Cids |-> "running"]
    /\ nets = [n \in NetIds |-> "macvlan"]
    /\ \A e \in registry : e.netType = "macvlan"

EnvMain == Main /\ pc' = "cidsByHost"
EnvCidsByHost == CleanupCidsByHost /\ pc' = "listDead"
EnvListDead ==
    /\ CleanupListDead
    /\ pc' = "listAll"
    /\ dockerDeads' = ListContainers({c \in Cids : containers[c] = "exited"})
EnvListAll ==
    /\ CleanupListAll
    /\ pc' = "sweep"
    /\ cids' = ListContainers({c \in Cids : containers[c] \in {"running", "exited"}})
EnvCleanupVisit == CleanupCall(TRUE)
EnvAddEventListener == WatchAddEventListener /\ listener' = "added"
EnvReceive ==
    /\ pending # <<>>
    /\ WatchReceive(Head(pending))
    /\ pending' = Tail(pending)
EnvFindByCid == ProcessLookup(TRUE)
EnvProcessVisit == ProcessCall(TRUE)

NextEnv ==
    \/ EnvMain
    \/ EnvCidsByHost
    \/ EnvListDead
    \/ EnvListAll
    \/ EnvCleanupVisit
    \/ CleanupReturn
    \/ EnvAddEventListener
    \/ EnvReceive
    \/ EnvFindByCid
    \/ EnvProcessVisit
    \/ ProcessReturn
    \/ \E c \in Cids : EnvContainerExits(c)
    \/ \E c \in Cids : EnvContainerRemoved(c)
    \/ \E n \in Names, c \in Cids, a \in Names : EnvProvision(n, c, a)
    \/ \E e \in registry : EnvCniDelete(e)

SpecEnv == InitEnv /\ [][NextEnv]_vars

\* C14: no container death after the start of the process goes unobserved by
\* both the sweep and the watcher: when every collaborator call succeeds and
\* Watch sits at its select with no notification left to read, no endpoint
\* record is left in the registry for a container that has been removed from
\* the host (and for which no notification can come any more).
C14_NoLostCleanup ==
    (pc = "watch" /\ pending = <<>>)
    => \A e \in registry : containers[e.cid] # "removed"

\* C18: no deleteInterface call releases an address that, at the moment of
\* the release, is assigned to an endpoint record present in the registry for
\* a running container.
C18_NoReleaseInUse ==
    [][IsRelease
       => ~(\E r \in registry :
               /\ r.netId = Released.netId /\ r.addr = Released.addr
               /\ containers[r.cid] = "running"
               /\ <<r.netId, r.addr>> \in pool)]_vars

====
